---- MODULE Spec2Model ----
(***************************************************************************)
(* A model of backend/main.py of the AI compliance MVP: the in-memory      *)
(* stores FILES and ANALYSES, the three request handlers (upload_file,     *)
(* analyze, get_analysis) and the weighted-lexicon scorer and summarizer   *)
(* enhanced_risk_analysis.                                                 *)
(*                                                                         *)
(* Representation.  A Python str is a sequence of code points (integers),  *)
(* a bytes object is a sequence of integers 0..255, the float risk_score   *)
(* is the exact rational [num, den] (score / 100.0 is [score, 100], 1.0 is *)
(* [1, 1]) and the identifier "file_<n>" is the pair <<"file_", n>>.       *)
(***************************************************************************)
EXTENDS Integers, Sequences, FiniteSets, TLC

VARIABLES
    FILES,      \* main.py:219  dict file_id -> bytes
    ANALYSES,   \* main.py:220  dict file_id -> AnalysisResult
    PyPDF2,     \* main.py:25-31  TRUE iff the optional import succeeded
    reader,     \* what PyPDF2.PdfReader does with each PDF-headed document
    reading,    \* upload requests suspended at await file.read()
    response,   \* what the handler that ran last returned or raised
    text,       \* scorer harness: the argument of enhanced_risk_analysis
    analysis    \* scorer harness: the dict enhanced_risk_analysis returned

vars == <<FILES, ANALYSES, PyPDF2, reader, reading, response, text, analysis>>

(***************************************************************************)
(* Strings                                                                 *)
(***************************************************************************)

\* The printable ASCII characters in code-point order, 32 (space) to 126,
\* without the double quote (34), the backslash (92) and the backquote (96),
\* which no literal of the source and no input below uses.
AsciiLow == " !"
AsciiMid == "#$%&'()*+,-./0123456789:;<=>?@ABCDEFGHIJKLMNOPQRSTUVWXYZ["
AsciiHigh == "]^_"
AsciiLetters == "abcdefghijklmnopqrstuvwxyz{|}~"

\* The position of the one-character string c in the string table, or 0.
IndexIn(c, table) ==
    LET at == {k \in 1..Len(table) : SubSeq(table, k, k) = c}
    IN  IF at = {} THEN 0 ELSE CHOOSE k \in at : TRUE

\* ord(c)
Ord(c) ==
    IF IndexIn(c, AsciiLow) > 0 THEN 31 + IndexIn(c, AsciiLow)
    ELSE IF IndexIn(c, AsciiMid) > 0 THEN 34 + IndexIn(c, AsciiMid)
    ELSE IF IndexIn(c, AsciiHigh) > 0 THEN 92 + IndexIn(c, AsciiHigh)
    ELSE 96 + IndexIn(c, AsciiLetters)

\* A string literal of the source as the sequence of its code points.
Str(s) == [i \in 1..Len(s) |-> Ord(SubSeq(s, i, i))]

\* str.lower() on one code point.  Exact below U+0100 (ASCII and Latin-1);
\* every other code point the inputs below decode to has no lower case.
LowerChar(c) ==
    IF (c >= 65 /\ c <= 90) \/ (c >= 192 /\ c <= 222 /\ c # 215)
    THEN c + 32
    ELSE c

\* Lower with the lowering forgotten: the text is matched as written.
LowerForgotten(s) == s

\* str.lower()
Lower(s) == SubSeq([i \in 1..Len(s) |-> LowerChar(s[i])], 1, Len(s))

\* What \s of a str pattern matches, and what str.strip() removes.
IsSpace(c) ==
    \/ c \in 9..13
    \/ c \in 28..32
    \/ c \in {133, 160, 5760, 8232, 8233, 8239, 8287, 12288}
    \/ c \in 8192..8202

\* The class [.!?] of the sentence pattern.
IsTerminator(c) == c \in {33, 46, 63}

\* term in s, on str
Contains(term, s) ==
    \E i \in 0..(Len(s) - Len(term)) : SubSeq(s, i + 1, i + Len(term)) = term

\* The positions of s from position from on, in ascending order.
Positions(s, from) == [k \in 1..(Len(s) + 1 - from) |-> k + from - 1]

\* str.strip()
Strip(s) ==
    LET keep == SelectSeq(Positions(s, 1), LAMBDA i : ~IsSpace(s[i]))
    IN  IF keep = <<>> THEN <<>> ELSE SubSeq(s, keep[1], keep[Len(keep)])

\* re.split on the sentence pattern: cut at every maximal run of whitespace
\* that directly follows a full stop, an exclamation mark or a question mark;
\* the run itself is dropped.
RECURSIVE ReSplit(_)
ReSplit(s) ==
    LET cuts == SelectSeq(Positions(s, 2),
                          LAMBDA i : IsSpace(s[i]) /\ IsTerminator(s[i - 1]))
    IN  IF cuts = <<>> THEN <<s>>
        ELSE LET rest == SelectSeq(Positions(s, cuts[1]), LAMBDA i : ~IsSpace(s[i]))
                 next == IF rest = <<>> THEN Len(s) + 1 ELSE rest[1]
             IN  <<SubSeq(s, 1, cuts[1] - 1)>> \o ReSplit(SubSeq(s, next, Len(s)))

\* sep.join(parts)
RECURSIVE Join(_, _)
Join(sep, parts) ==
    IF parts = <<>> THEN <<>>
    ELSE IF Len(parts) = 1 THEN parts[1]
    ELSE parts[1] \o sep \o Join(sep, Tail(parts))

(***************************************************************************)
(* The risk lexicon and the scorer                                         *)
(***************************************************************************)

\* RISK_WEIGHTS in the order the dict literal defines (and iterates) it.
RISK_WEIGHTS == <<
    [term |-> Str("fraud"),            weight |-> 20],
    [term |-> Str("bribery"),          weight |-> 15],
    [term |-> Str("sanctions"),        weight |-> 25],
    [term |-> Str("bankruptcy"),       weight |-> 10],
    [term |-> Str("money laundering"), weight |-> 30],
    [term |-> Str("litigation"),       weight |-> 10],
    [term |-> Str("regulatory fines"), weight |-> 20],
    [term |-> Str("tax evasion"),      weight |-> 15],
    [term |-> Str("data breach"),      weight |-> 20],
    [term |-> Str("antitrust"),        weight |-> 15] >>

\* The divisor of score / 100.0
ScoreDivisor == 100

\* The two recommendation strings (the second with a plain hyphen where the
\* source has U+2011); they are only ever compared as wholes.
ReviewAdvice == "Review the highlighted sentences for potential compliance issues."
StandardAdvice == "No high-severity risk terms detected; continue standard due diligence."

\* ScanLexicon with score = weight where the source has score += weight.
RECURSIVE ScanLexiconAssign(_, _, _, _)
ScanLexiconAssign(lower, k, flagged, score) ==
    IF k > Len(RISK_WEIGHTS) THEN [flagged |-> flagged, score |-> score]
    ELSE IF Contains(RISK_WEIGHTS[k].term, lower)
         THEN ScanLexiconAssign(lower, k + 1, Append(flagged, RISK_WEIGHTS[k].term),
                                RISK_WEIGHTS[k].weight)
         ELSE ScanLexiconAssign(lower, k + 1, flagged, score)

\* The loop over RISK_WEIGHTS.items() from entry k on: the terms it appends
\* to `flagged` and what it adds to `score`.
RECURSIVE ScanLexicon(_, _, _, _)
ScanLexicon(lower, k, flagged, score) ==
    IF k > Len(RISK_WEIGHTS) THEN [flagged |-> flagged, score |-> score]
    ELSE IF Contains(RISK_WEIGHTS[k].term, lower)
         THEN ScanLexicon(lower, k + 1, Append(flagged, RISK_WEIGHTS[k].term),
                          score + RISK_WEIGHTS[k].weight)
         ELSE ScanLexicon(lower, k + 1, flagged, score)

\* Normalise with the cap of min(..., 1.0) left out.
NormaliseUncapped(score) == [num |-> score, den |-> ScoreDivisor]

\* min(score / 100.0, 1.0) as an exact rational.
Normalise(score) ==
    IF score * 1 <= 1 * ScoreDivisor
    THEN [num |-> score, den |-> ScoreDivisor]
    ELSE [num |-> 1, den |-> 1]

\* sentences = [s.strip() for s in re.split(...) if s.strip()]
Sentences(t) ==
    LET parts    == ReSplit(t)
        stripped == [i \in 1..Len(parts) |-> Strip(parts[i])]
    IN  SelectSeq(stripped, LAMBDA s : s # <<>>)

\* any(term in s.lower() for term in flagged)
MentionsFlagged(s, flagged) ==
    \E k \in 1..Len(flagged) : Contains(flagged[k], Lower(s))

\* SummarySentences without the fallback to the first sentence.
SummarySentencesNoFallback(sentences, flagged) ==
    SelectSeq(sentences, LAMBDA s : MentionsFlagged(s, flagged))

\* The sentences the summary is built from: those with a flagged term, or
\* else the first sentence.
SummarySentences(sentences, flagged) ==
    LET hits == SelectSeq(sentences, LAMBDA s : MentionsFlagged(s, flagged))
    IN  IF hits = <<>> /\ sentences # <<>> THEN <<sentences[1]>> ELSE hits

\* The join of summary_sentences with full stop and space, plus a full stop
\* if summary_sentences is not empty.
Summary(summary_sentences) ==
    Join(<<46, 32>>, summary_sentences)
        \o (IF summary_sentences # <<>> THEN <<46>> ELSE <<>>)

enhanced_risk_analysis(t) ==
    LET scan == ScanLexicon(Lower(t), 1, <<>>, 0)
        summary_sentences == SummarySentences(Sentences(t), scan.flagged)
    IN  [summary    |-> Summary(summary_sentences),
         risk_score |-> Normalise(scan.score),
         details    |-> [flagged_terms   |-> scan.flagged,
                         recommendations |-> IF scan.flagged # <<>>
                                             THEN ReviewAdvice
                                             ELSE StandardAdvice]]

(***************************************************************************)
(* Bytes and text extraction                                               *)
(***************************************************************************)

\* The bytes of an ASCII literal.
Bytes(s) == Str(s)

IsContinuation(b, i) == i <= Len(b) /\ b[i] >= 128 /\ b[i] <= 191

InRange(b, i, lo, hi) == i <= Len(b) /\ b[i] >= lo /\ b[i] <= hi

\* The length of the well-formed UTF-8 sequence that starts at byte i of b,
\* or 0 when none does (a stray continuation byte, an overlong or truncated
\* sequence, a surrogate, a byte above 0xF4).
Utf8Len(b, i) ==
    IF b[i] < 128 THEN 1
    ELSE IF b[i] >= 194 /\ b[i] <= 223 /\ IsContinuation(b, i + 1) THEN 2
    ELSE IF b[i] = 224 /\ InRange(b, i + 1, 160, 191) /\ IsContinuation(b, i + 2) THEN 3
    ELSE IF b[i] = 237 /\ InRange(b, i + 1, 128, 159) /\ IsContinuation(b, i + 2) THEN 3
    ELSE IF b[i] >= 225 /\ b[i] <= 239 /\ b[i] # 237
            /\ IsContinuation(b, i + 1) /\ IsContinuation(b, i + 2) THEN 3
    ELSE IF b[i] = 240 /\ InRange(b, i + 1, 144, 191)
            /\ IsContinuation(b, i + 2) /\ IsContinuation(b, i + 3) THEN 4
    ELSE IF b[i] = 244 /\ InRange(b, i + 1, 128, 143)
            /\ IsContinuation(b, i + 2) /\ IsContinuation(b, i + 3) THEN 4
    ELSE IF b[i] >= 241 /\ b[i] <= 243 /\ IsContinuation(b, i + 1)
            /\ IsContinuation(b, i + 2) /\ IsContinuation(b, i + 3) THEN 4
    ELSE 0

\* The code point of the well-formed sequence of n bytes at byte i of b.
CodePoint(b, i, n) ==
    IF n = 1 THEN b[i]
    ELSE IF n = 2 THEN (b[i] - 192) * 64 + (b[i + 1] - 128)
    ELSE IF n = 3 THEN (b[i] - 224) * 4096 + (b[i + 1] - 128) * 64 + (b[i + 2] - 128)
    ELSE (b[i] - 240) * 262144 + (b[i + 1] - 128) * 4096
             + (b[i + 2] - 128) * 64 + (b[i + 3] - 128)

\* bytes.decode("utf-8", errors="ignore"): every well-formed sequence yields
\* its code point and every other byte is dropped.  The bytes after the first
\* of a well-formed sequence are continuation bytes, at which no sequence
\* starts, so the decoder emits exactly at the bytes where one starts.
DecodeIgnore(b) ==
    LET starts == SelectSeq(Positions(b, 1), LAMBDA i : Utf8Len(b, i) > 0)
    IN  SubSeq([k \in 1..Len(starts) |->
                    CodePoint(b, starts[k], Utf8Len(b, starts[k]))], 1, Len(starts))

\* The length of the fallback preview, data[:500].
PreviewLen == 500

\* data[:n]
Prefix(data, n) == SubSeq(data, 1, IF Len(data) < n THEN Len(data) ELSE n)

\* b"%PDF"
PdfHeader == Bytes("%PDF")

\* data[:4] == b"%PDF"
IsPdf(data) == Prefix(data, 4) = PdfHeader

\* What PyPDF2 does with a document.  ReaderFails: PdfReader(...) or
\* reader.pages raises.  Otherwise the document has pages, and each page
\* either makes extract_text raise (PageRaises), or returns None or the empty
\* string (PageNone), or returns a text.
ReaderFails == [fails |-> TRUE, pages |-> <<>>]
Pages(pages) == [fails |-> FALSE, pages |-> pages]
PageRaises == [raises |-> TRUE, text |-> <<>>]
PageNone == [raises |-> FALSE, text |-> <<>>]
Page(t) == [raises |-> FALSE, text |-> t]

\* page_text = page.extract_text() or "", and "" when it raises.
PageText(page) == IF page.raises THEN <<>> ELSE page.text

extract_text_from_pdf(data) ==
    IF ~PyPDF2 THEN <<>>
    ELSE IF reader[data].fails THEN <<>>
    ELSE Join(<<10>>, [k \in 1..Len(reader[data].pages) |->
                           PageText(reader[data].pages[k])])

\* ExtractText without the fallback preview.
ExtractTextNoFallback(data) ==
    IF IsPdf(data) THEN extract_text_from_pdf(data) ELSE DecodeIgnore(data)

\* analyze, from the header test to the fallback preview: the text handed to
\* enhanced_risk_analysis.
ExtractText(data) ==
    LET extracted == IF IsPdf(data) THEN extract_text_from_pdf(data)
                     ELSE DecodeIgnore(data)
    IN  IF extracted = <<>> THEN DecodeIgnore(Prefix(data, PreviewLen))
        ELSE extracted

(***************************************************************************)
(* Inputs                                                                  *)
(***************************************************************************)

\* A text in which every term of RISK_WEIGHTS occurs (total weight 180).
AllTermsText ==
    Str("Bribery and FRAUD. Sanctions, bankruptcy, money laundering! Litigation; regulatory fines? Tax evasion, data breach, antitrust")

PlainDoc == Bytes("Antitrust. No fraud, ") \o <<195, 137>> \o Bytes("t") \o <<226, 130>>
UndecodableDoc == <<255, 254, 128>>
PdfDoc == Bytes("%PDF-1.4") \o <<255, 10>>

\* The documents clients upload, all non-empty.
Docs == {PlainDoc, UndecodableDoc, PdfDoc}

\* The bodies an upload request can carry: a document or no bytes at all.
UploadBodies == Docs \cup {<<>>}

PdfDocs == {d \in Docs : IsPdf(d)}

ReaderOutcomes ==
    {ReaderFails, Pages(<<PageNone>>),
     Pages(<<PageRaises, Page(AllTermsText), PageNone>>)}

\* How many upload requests the model follows: the documents stored plus the
\* requests suspended never exceed it.
MaxFiles == 2

\* The identifier f"file_{n}".
FileId(n) == <<"file_", n>>

\* The identifiers a client may send: every one upload can issue, one more,
\* and one that upload never issues.
RequestIds == {FileId(n) : n \in 1..(MaxFiles + 1)} \cup {<<"report_", 1>>}

(***************************************************************************)
(* The handlers                                                            *)
(***************************************************************************)

NoResponse == [op |-> "none"]
NoAnalysis == [summary |-> <<>>, risk_score |-> [num |-> 0, den |-> 1],
               details |-> [flagged_terms |-> <<>>, recommendations |-> ""]]

\* len(FILES)
StoreSize == Cardinality(DOMAIN FILES)

\* The number of upload requests suspended at await file.read().
Suspended == LET RECURSIVE Sum(_)
                 Sum(S) == IF S = {} THEN 0
                           ELSE LET c == CHOOSE x \in S : TRUE
                                IN  reading[c] + Sum(S \ {c})
             IN  Sum(UploadBodies)

\* d[key] = value on a dict
Put(d, key, value) ==
    [k \in DOMAIN d \cup {key} |-> IF k = key THEN value ELSE d[k]]

\* NextFileId counting the wrong store: f"file_{len(ANALYSES) + 1}".
NextFileIdFromAnalyses == FileId(Cardinality(DOMAIN ANALYSES) + 1)

\* file_id = f"file_{len(FILES) + 1}"
NextFileId == FileId(StoreSize + 1)

\* upload_file up to its await: the request is suspended while its body is
\* read; other handlers run meanwhile.
UploadRead(contents) ==
    /\ StoreSize + Suspended < MaxFiles
    /\ reading' = [reading EXCEPT ![contents] = @ + 1]
    /\ UNCHANGED <<FILES, ANALYSES, PyPDF2, reader, response, text, analysis>>

\* UploadStore with the test for an empty body left out.
UploadStoreUnchecked(contents) ==
    /\ reading[contents] > 0
    /\ reading' = [reading EXCEPT ![contents] = @ - 1]
    /\ FILES' = Put(FILES, NextFileId, contents)
    /\ response' = [op |-> "upload", status |-> 200, file_id |-> NextFileId]
    /\ UNCHANGED <<ANALYSES, PyPDF2, reader, text, analysis>>

\* upload_file from the await to its end, which runs without suspending.
UploadStore(contents) ==
    /\ reading[contents] > 0
    /\ reading' = [reading EXCEPT ![contents] = @ - 1]
    /\ IF contents = <<>>
       THEN /\ response' = [op |-> "upload", status |-> 400, detail |-> "Empty file"]
            /\ UNCHANGED FILES
       ELSE /\ FILES' = Put(FILES, NextFileId, contents)
            /\ response' = [op |-> "upload", status |-> 200, file_id |-> NextFileId]
    /\ UNCHANGED <<ANALYSES, PyPDF2, reader, text, analysis>>

\* AnalysisResult built without the identifier of the request.
AnalysisResultAnonymous(file_id, a) ==
    [file_id    |-> FileId(0),
     summary    |-> a.summary,
     risk_score |-> a.risk_score,
     details    |-> a.details]

\* AnalysisResult(file_id=..., summary=..., risk_score=..., details=...)
AnalysisResult(file_id, a) ==
    [file_id    |-> file_id,
     summary    |-> a.summary,
     risk_score |-> a.risk_score,
     details    |-> a.details]

\* analyze reading the store with FILES.get(file_id, b"") and no 404.
analyzeUnchecked(file_id) ==
    /\ LET data   == IF file_id \in DOMAIN FILES THEN FILES[file_id] ELSE <<>>
           result == AnalysisResult(file_id, enhanced_risk_analysis(ExtractText(data)))
       IN  /\ ANALYSES' = Put(ANALYSES, file_id, result)
           /\ response' = [op |-> "analyze", status |-> 200, file_id |-> file_id,
                           body |-> result]
    /\ UNCHANGED <<FILES, PyPDF2, reader, reading, text, analysis>>

\* analyze has no await: it runs from request to response in one step.
analyze(file_id) ==
    /\ IF file_id \notin DOMAIN FILES
       THEN /\ response' = [op |-> "analyze", status |-> 404, file_id |-> file_id,
                            detail |-> "File not found"]
            /\ UNCHANGED ANALYSES
       ELSE LET result == AnalysisResult(file_id,
                              enhanced_risk_analysis(ExtractText(FILES[file_id])))
            IN  /\ ANALYSES' = Put(ANALYSES, file_id, result)
                /\ response' = [op |-> "analyze", status |-> 200, file_id |-> file_id,
                                body |-> result]
    /\ UNCHANGED <<FILES, PyPDF2, reader, reading, text, analysis>>

get_analysis(file_id) ==
    /\ IF file_id \notin DOMAIN ANALYSES
       THEN response' = [op |-> "get_analysis", status |-> 404, file_id |-> file_id,
                         detail |-> "Analysis not found"]
       ELSE response' = [op |-> "get_analysis", status |-> 200, file_id |-> file_id,
                         body |-> ANALYSES[file_id]]
    /\ UNCHANGED <<FILES, ANALYSES, PyPDF2, reader, reading, text, analysis>>

\* The process after import: both stores empty, PyPDF2 imported or not, and
\* the library's behaviour on each PDF-headed document fixed once and for all.
Init ==
    /\ FILES = <<>>
    /\ ANALYSES = <<>>
    /\ PyPDF2 \in BOOLEAN
    /\ reader \in [PdfDocs -> ReaderOutcomes]
    /\ (~PyPDF2 => \A d \in PdfDocs : reader[d] = ReaderFails)
    /\ reading = [c \in UploadBodies |-> 0]
    /\ response = NoResponse
    /\ text = <<>>
    /\ analysis = NoAnalysis

Next ==
    \/ \E contents \in UploadBodies : UploadRead(contents)
    \/ \E contents \in UploadBodies : UploadStore(contents)
    \/ \E file_id \in RequestIds : analyze(file_id)
    \/ \E file_id \in RequestIds : get_analysis(file_id)

Spec == Init /\ [][Next]_vars

(***************************************************************************)
(* The scorer on its own: enhanced_risk_analysis applied to texts          *)
(***************************************************************************)

\* The pieces the texts are put together from.
Fragments ==
    {Str("Fraud"), Str("antitrust "), Str("BRIBERY"), Str("money"),
     Str(" laundering"), Str(". "), Str("!"), Str("?  "), <<10>>, Str("ok"),
     AllTermsText}

\* How many fragments a text is put together from, at most.
MaxFragments == 3

\* The texts of the documented examples.
FraudExample == Str("We detected fraud in the Q3 filings. Revenue grew 5%.")
NominalExample == Str("All systems nominal.")

RECURSIVE TextsOf(_)
TextsOf(n) ==
    IF n = 0 THEN {<<>>}
    ELSE TextsOf(n - 1) \cup {t \o f : t \in TextsOf(n - 1), f \in Fragments}

Texts == TextsOf(MaxFragments) \cup {FraudExample, NominalExample}

ScorerInit ==
    /\ FILES = <<>>
    /\ ANALYSES = <<>>
    /\ PyPDF2 = FALSE
    /\ reader = [d \in PdfDocs |-> ReaderFails]
    /\ reading = [c \in UploadBodies |-> 0]
    /\ response = NoResponse
    /\ text \in Texts
    /\ analysis = NoAnalysis

\* One call enhanced_risk_analysis(text).
Score ==
    /\ response = NoResponse
    /\ response' = [op |-> "enhanced_risk_analysis"]
    /\ analysis' = enhanced_risk_analysis(text)
    /\ UNCHANGED <<FILES, ANALYSES, PyPDF2, reader, reading, text>>

ScorerNext == Score

ScorerSpec == ScorerInit /\ [][ScorerNext]_vars

(***************************************************************************)
(* Properties                                                              *)
(***************************************************************************)

\* A call of enhanced_risk_analysis(text) has returned into analysis.
Scored == response.op = "enhanced_risk_analysis"

\* The handler that ran last was op and answered with status.
Answered(op, status) ==
    /\ response.op = op
    /\ response.status = status

\* 0.0 <= r <= 1.0 for the rational r.
InUnitInterval(r) == r.den > 0 /\ 0 <= r.num /\ r.num <= r.den

\* Two code points that are the same letter in either case (the lexicon is
\* ASCII, so only the ASCII letters matter).
SameIgnoringCase(a, b) ==
    \/ a = b
    \/ a \in 65..90 /\ b = a + 32
    \/ b \in 65..90 /\ a = b + 32

\* term is a case-insensitive substring of t.
OccursIgnoringCase(term, t) ==
    \E i \in 0..(Len(t) - Len(term)) :
        \A k \in 1..Len(term) : SameIgnoringCase(t[i + k], term[k])

LexiconTerms == [k \in 1..Len(RISK_WEIGHTS) |-> RISK_WEIGHTS[k].term]

\* The terms of the lexicon that occur in t, in lexicon order.
TermsPresent(t) == SelectSeq(LexiconTerms, LAMBDA term : OccursIgnoringCase(term, t))

WeightOf(term) ==
    RISK_WEIGHTS[CHOOSE k \in 1..Len(RISK_WEIGHTS) : RISK_WEIGHTS[k].term = term].weight

RECURSIVE TotalWeight(_)
TotalWeight(terms) ==
    IF terms = <<>> THEN 0 ELSE WeightOf(terms[1]) + TotalWeight(Tail(terms))

NoDuplicates(q) == \A i, j \in 1..Len(q) : i # j => q[i] # q[j]

\* C1: every AssessmentResult in the result store, and every result analyze
\* returns, has a risk_score between 0.0 and 1.0, however many lexicon terms
\* match.
C1_RiskScoreInUnitInterval ==
    /\ \A id \in DOMAIN ANALYSES : InUnitInterval(ANALYSES[id].risk_score)
    /\ Answered("analyze", 200) => InUnitInterval(response.body.risk_score)

\* C1 witness: a stored result for which all ten terms matched (weight 180).
C1_AllTermsStored ==
    /\ Answered("analyze", 200)
    /\ response.file_id \in DOMAIN ANALYSES
    /\ Len(ANALYSES[response.file_id].details.flagged_terms) = Len(RISK_WEIGHTS)
    /\ TotalWeight(ANALYSES[response.file_id].details.flagged_terms) = 180
    /\ ANALYSES[response.file_id].risk_score = [num |-> 1, den |-> 1]

\* C2: flagged_terms is exactly the lexicon terms that occur in the text as a
\* case-insensitive substring, each once, in lexicon order and not in the
\* order of occurrence.
C2_FlaggedTermsExact ==
    Scored =>
        /\ analysis.details.flagged_terms = TermsPresent(text)
        /\ NoDuplicates(analysis.details.flagged_terms)

\* C2 witness: antitrust is mentioned before bribery (in upper case), and the
\* scorer lists bribery first.
C2_LexiconOrderSeen ==
    /\ Scored
    /\ text = Str("antitrust BRIBERY")
    /\ analysis.details.flagged_terms = <<Str("bribery"), Str("antitrust")>>

C4_SingleTrailingPeriod ==
    Scored =>
        LET selected == SummarySentences(Sentences(text), analysis.details.flagged_terms)
        IN  /\ (Len(selected) = 1 /\ selected[1][Len(selected[1])] = 46
                    => analysis.summary = selected[1])
            /\ (text = FraudExample
                    => analysis.summary = Str("We detected fraud in the Q3 filings."))
            /\ (text = NominalExample => analysis.summary = Str("All systems nominal."))

\* The sentence-like units of t that mention one of the terms, in document
\* order, or the first unit when none does.
ExpectedSelection(t, flagged) ==
    LET units == Sentences(t)
        hits  == SelectSeq(units, LAMBDA u :
                     \E k \in 1..Len(flagged) : OccursIgnoringCase(flagged[k], u))
    IN  IF hits # <<>> THEN hits
        ELSE IF units # <<>> THEN <<units[1]>>
        ELSE <<>>

\* C5: the summary is built from exactly the units that contain a flagged
\* term, in document order, or from the first unit when none does; it is
\* empty when there is no unit and non-empty when there is one.
C5_SelectionExact ==
    Scored =>
        /\ analysis.summary =
               Summary(ExpectedSelection(text, analysis.details.flagged_terms))
        /\ (Sentences(text) = <<>> <=> analysis.summary = <<>>)

\* C5 witness: only the second unit mentions a term, and the summary is built
\* from it alone.
C5_SecondUnitSelected ==
    /\ Scored
    /\ text = Str("ok. Fraud")
    /\ Sentences(text) = <<Str("ok."), Str("Fraud")>>
    /\ analysis.summary = Str("Fraud.")

\* Some well-formed UTF-8 sequence starts in data.
HasDecodableByte(data) == \E i \in 1..Len(data) : Utf8Len(data, i) > 0

\* C6 as stated: for every stored non-empty document that analyze has
\* processed, the text handed to the scorer is non-empty.
C6_TextNeverEmpty ==
    (Answered("analyze", 200) /\ FILES[response.file_id] # <<>>)
        => ExtractText(FILES[response.file_id]) # <<>>

\* C6 as amended: the text analyze hands to the scorer is non-empty exactly
\* when the document holds at least one well-formed UTF-8 sequence, which
\* every PDF-headed document does.
C6_TextEmptyOnlyIfUndecodable ==
    Answered("analyze", 200) =>
        LET data == FILES[response.file_id]
        IN  /\ (ExtractText(data) # <<>> <=> HasDecodableByte(data))
            /\ (IsPdf(data) => ExtractText(data) # <<>>)

\* C6 witness: PDF extraction yielded nothing and the preview supplied text.
C6_PreviewUsed ==
    /\ Answered("analyze", 200)
    /\ IsPdf(FILES[response.file_id])
    /\ extract_text_from_pdf(FILES[response.file_id]) = <<>>
    /\ ExtractText(FILES[response.file_id]) = DecodeIgnore(FILES[response.file_id])
    /\ response.body.summary # <<>>

\* C7: analyze of an identifier that is not in the document store answers
\* 404 and changes neither store, so the identifier has no result afterwards;
\* and every identifier with a stored result is that of a stored document.
C7_AnalyzeUnknownIsNotFound ==
    /\ [](DOMAIN ANALYSES \subseteq DOMAIN FILES)
    /\ [][(response'.op = "analyze" /\ response'.file_id \notin DOMAIN FILES)
            => /\ response'.status = 404
               /\ FILES' = FILES
               /\ ANALYSES' = ANALYSES
               /\ response'.file_id \notin DOMAIN ANALYSES']_vars

\* C7 witness: with a document stored and analysed, analyze of another
\* identifier was answered 404.
C7_UnknownAnalyzed ==
    /\ Answered("analyze", 404)
    /\ response.file_id = FileId(2)
    /\ DOMAIN FILES = {FileId(1)}
    /\ DOMAIN ANALYSES = {FileId(1)}

\* C8: an upload of no bytes answers 400, issues no identifier and changes
\* neither store, so the next identifier is what it was; no stored document
\* is empty.
C8_EmptyUploadRejected ==
    /\ [](\A id \in DOMAIN FILES : FILES[id] # <<>>)
    /\ [][reading'[<<>>] < reading[<<>>]
            => /\ response' = [op |-> "upload", status |-> 400, detail |-> "Empty file"]
               /\ FILES' = FILES
               /\ ANALYSES' = ANALYSES
               /\ NextFileId' = NextFileId]_vars

\* C8 witness: an empty upload was rejected after a document had been stored.
C8_RejectedAfterStore ==
    /\ Answered("upload", 400)
    /\ StoreSize = 1

\* C9: an upload that succeeds is issued an identifier no stored document has,
\* whatever other uploads are suspended; it adds exactly its own entry, and
\* no entry is ever removed or changed.
C9_FreshIdentifiers ==
    /\ [][\A c \in Docs : reading'[c] < reading[c]
            => /\ response'.op = "upload" /\ response'.status = 200
               /\ response'.file_id \notin DOMAIN FILES
               /\ DOMAIN FILES' = DOMAIN FILES \cup {response'.file_id}
               /\ FILES'[response'.file_id] = c]_vars
    /\ [][\A id \in DOMAIN FILES : id \in DOMAIN FILES' /\ FILES'[id] = FILES[id]]_vars

\* C9 witness: a second upload was stored, under a second identifier, beside
\* the first.
C9_SecondUploadStored ==
    /\ Answered("upload", 200)
    /\ response.file_id = FileId(2)
    /\ DOMAIN FILES = {FileId(1), FileId(2)}
    /\ FILES[FileId(1)] # FILES[FileId(2)]

\* C10: a stored result carries its key as identifier; analyze stores what
\* it returns under the identifier asked for, touches no other entry and
\* rewrites an existing entry with an equal result; get_analysis returns the
\* stored result, or 404 when there is none.
C10_LatestResultKept ==
    /\ [](\A id \in DOMAIN ANALYSES : ANALYSES[id].file_id = id)
    /\ [][(response'.op = "analyze" /\ response'.status = 200)
            => /\ DOMAIN ANALYSES' = DOMAIN ANALYSES \cup {response'.file_id}
               /\ ANALYSES'[response'.file_id] = response'.body
               /\ \A id \in DOMAIN ANALYSES : ANALYSES'[id] = ANALYSES[id]]_vars
    /\ [][response'.op = "get_analysis"
            => /\ ANALYSES' = ANALYSES
               /\ IF response'.file_id \in DOMAIN ANALYSES
                  THEN response'.status = 200
                       /\ response'.body = ANALYSES[response'.file_id]
                  ELSE response'.status = 404]_vars

\* C10 witness: the result of a document analysed among others was retrieved.
C10_LatestRetrieved ==
    /\ Answered("get_analysis", 200)
    /\ response.body = ANALYSES[response.file_id]
    /\ response.body.file_id = FileId(2)
    /\ Cardinality(DOMAIN ANALYSES) = 2

====
